---------------------------- MODULE Spec2Model ----------------------------
(***************************************************************************)
(* FileForge (python/fileforge/core/fileforge.py): the single-file         *)
(* conversion pipeline FileForge.convert and the bounded-concurrency batch *)
(* runner FileForge.convert_batch.                                         *)
(*                                                                         *)
(* Two specifications share the module:                                    *)
(*   Spec       one call of convert on a registry built by add_plugin /    *)
(*              remove_plugin, stepped through its awaited stages;         *)
(*   SpecBatch  one call of convert_batch: the tasks of asyncio.gather,    *)
(*              each inside `async with semaphore`.                        *)
(*                                                                         *)
(* Conventions.  An Optional value is a tuple: None is <<>> and a present  *)
(* value v is <<v>>.  bytes are sequences of 0..255, str values are        *)
(* sequences of code points.  A call that may raise yields an outcome      *)
(* record: Ok(v) or Raise(e).  Wall-clock fields (processing_time,         *)
(* total_time) are not modelled.                                           *)
(***************************************************************************)
EXTENDS Integers, Sequences, FiniteSets, TLC

VARIABLES
    \* ---- the engine
    registry,        \* PluginManager: the registered plugins, in registration order
    \* ---- one call of convert
    pc,              \* position inside convert
    input_data,      \* argument: [kind: "bytes"|"path"|"other", ...]
    output_format,   \* argument
    options,         \* argument (ConversionOptions)
    input_buffer,    \* local
    input_path,      \* local (Optional)
    original_format, \* local
    metadata,        \* local (Optional MetadataResult)
    output_data,     \* local (Optional bytes)
    result,          \* local: the ConversionResult built on line 81 (Optional)
    exc,             \* the exception raised inside the try block (Optional)
    ret,             \* what convert returned (Optional ConversionResult)
    raised,          \* what convert raised to its caller (Optional)
    fsWrites,        \* output files written by this call, in order
    pluginCalls,     \* plugin.convert invocations made by this call, in order
    \* ---- one call of convert_batch
    bpc,             \* position of convert_batch itself
    boptions,        \* argument (BatchConversionOptions, batch fields)
    bpatterns,       \* argument `patterns`, as the list line 130 makes of it
    files,           \* local: the glob matches, concatenated in pattern order
    total_files,     \* local
    results,         \* local: the list the closure convert_file reads
    errors,          \* local: the {file, error} records
    semaphore,       \* asyncio.Semaphore: its free-slot counter
    task,            \* per file index: "waiting" | "running" | "returned" | "raised"
    completed,       \* per file index: what gather collected for the task
    finishOrder,     \* indices of the tasks in the order they left the pipeline
    progressLog,     \* the on_progress invocations, in order
    errorLog,        \* the on_error invocations, in order
    bret,            \* what convert_batch returned (Optional)
    braised          \* what convert_batch raised to its caller (Optional)

convVars  == <<pc, input_data, output_format, options, input_buffer, input_path,
               original_format, metadata, output_data, result, exc, ret, raised,
               fsWrites, pluginCalls>>
batchVars == <<bpc, boptions, bpatterns, files, total_files, results, errors, semaphore, task,
               completed, finishOrder, progressLog, errorLog, bret, braised>>
vars      == <<registry, convVars, batchVars>>

---------------------------------------------------------------------------
(* Bounds of the model *)

\* longest byte buffer / text a file or a plugin result holds
MaxLen == 1
\* most files a batch matches
MaxFiles == 3
\* largest max_concurrency tried
MaxConc == 2

---------------------------------------------------------------------------
(* Values *)

None    == <<>>
Some(v) == <<v>>
Ok(v)    == [ok |-> TRUE,  val |-> v]
Raise(e) == [ok |-> FALSE, exc |-> e]

RECURSIVE SeqsUpTo(_, _)
SeqsUpTo(S, n) ==
    IF n = 0 THEN {<<>>}
    ELSE LET shorter == SeqsUpTo(S, n - 1)
         IN  shorter \cup {Append(s, x) : s \in shorter, x \in S}

\* 37 is "%" (the first byte of the %PDF signature), 65 is "A"
ByteVals == {37, 65}
Buffers  == SeqsUpTo(ByteVals, MaxLen)
\* "A" and "e-acute" (U+00E9, two bytes in UTF-8)
CodePoints == {65, 233}
Texts      == SeqsUpTo(CodePoints, MaxLen)

\* format tokens a caller asks for; "zzz" is declared by no plugin
OutputFormats == {"txt", "md", "jpg", "zzz"}
\* suffixes of the paths tried, as written in the path (without the dot)
Suffixes == {"", "txt", "TXT", "jpeg"}

Path(suffix) == [dir |-> "in", stem |-> "x", suffix |-> suffix]

\* the plugins a host may register
CandidatePlugins ==
    { [name |-> "upper",   input_formats |-> {"txt"}, output_formats |-> {"md"}],
      [name |-> "pdf2txt", input_formats |-> {"pdf"}, output_formats |-> {"txt"}],
      [name |-> "image",   input_formats |-> {"jpg"}, output_formats |-> {"jpg", "pdf"}] }


---------------------------------------------------------------------------
(* Plugin registry (PluginManager) *)

HasName(reg, name) == \E i \in 1..Len(reg) : reg[i].name = name

\* add(plugin): registers under plugin.name, a colliding name is replaced
PluginManagerAdd(reg, plugin) ==
    IF HasName(reg, plugin.name)
    THEN [i \in 1..Len(reg) |-> IF reg[i].name = plugin.name THEN plugin ELSE reg[i]]
    ELSE Append(reg, plugin)

\* remove(name): unregisters, an unknown name is a no-op
PluginManagerRemove(reg, name) ==
    LET Keep(p) == p.name # name IN SelectSeq(reg, Keep)

\* Plugin.can_convert
CanConvert(plugin, input_format, out_format) ==
    /\ input_format \in plugin.input_formats
    /\ out_format \in plugin.output_formats

\* find(input_format, output_format): the first capable plugin in registration order
FindPlugin(reg, input_format, out_format) ==
    LET capable == {i \in 1..Len(reg) : CanConvert(reg[i], input_format, out_format)}
    IN  IF capable = {} THEN None
        ELSE Some(reg[CHOOSE i \in capable : \A j \in capable : i <= j])

\* is_supported(format, direction)
PluginManagerIsSupported(reg, format_name, type_) ==
    \E i \in 1..Len(reg) :
        IF type_ = "input" THEN format_name \in reg[i].input_formats
                           ELSE format_name \in reg[i].output_formats

\* FileForge.is_format_supported
IsFormatSupported(reg, format_name, type_) ==
    PluginManagerIsSupported(reg, format_name, type_)

---------------------------------------------------------------------------
(* Format detection *)

\* str.lower(), on the suffixes tried
Lower(s) == IF s = "TXT" THEN "txt" ELSE s

\* mimetypes.guess_type("dummy" + suffix)[0]: the lookup ignores case
GuessType(suffix) ==
    CASE Lower(suffix) = "txt"  -> Some("text/plain")
      [] Lower(suffix) = "jpeg" -> Some("image/jpeg")
      [] Lower(suffix) = "jpg"  -> Some("image/jpeg")
      [] Lower(suffix) = "pdf"  -> Some("application/pdf")
      [] OTHER                  -> None

\* mimetypes.guess_extension(mime).lstrip("."): the preferred extension of the type
GuessExtension(mime) ==
    CASE mime = "text/plain"      -> Some("txt")
      [] mime = "image/jpeg"      -> Some("jpg")
      [] mime = "application/pdf" -> Some("pdf")
      [] OTHER                    -> None

\* FileUtils.detect_format_by_signature(buffer): magic numbers of the leading
\* bytes; UnknownFormat when none matches
DetectFormatBySignature(buffer) ==
    IF Len(buffer) >= 1 /\ buffer[1] = 37 THEN Ok("pdf")
    ELSE Raise([msg |-> "UnknownFormat", args |-> <<>>])

\* variant of DetectFormat: the signature of the buffer is tried before the path
DetectFormatSignatureFirst(reg, buffer, file_path) ==
    LET suffix == IF file_path # None THEN file_path[1].suffix ELSE ""
        ext    == Lower(suffix)
        mime   == GuessType(suffix)
        ext2   == IF mime # None THEN GuessExtension(mime[1]) ELSE None
        sig    == DetectFormatBySignature(buffer)
    IN  IF sig.ok THEN sig
        ELSE IF file_path # None /\ ext # "" /\ IsFormatSupported(reg, ext, "input")
        THEN Ok(ext)
        ELSE IF mime # None /\ ext2 # None /\ IsFormatSupported(reg, ext2[1], "input")
        THEN Ok(ext2[1])
        ELSE sig

\* FileForge._detect_format
DetectFormat(reg, buffer, file_path) ==
    LET suffix == IF file_path # None THEN file_path[1].suffix ELSE ""
        ext    == Lower(suffix)
        mime   == GuessType(suffix)
        ext2   == IF mime # None THEN GuessExtension(mime[1]) ELSE None
    IN  IF file_path # None /\ ext # "" /\ IsFormatSupported(reg, ext, "input")
        THEN Ok(ext)
        ELSE IF mime # None /\ ext2 # None /\ IsFormatSupported(reg, ext2[1], "input")
        THEN Ok(ext2[1])
        ELSE DetectFormatBySignature(buffer)

---------------------------------------------------------------------------
(* Results *)

\* ConversionResult, with the defaults of the dataclass
ConversionResult(success, orig_format, out_format, original_size) ==
    [ success         |-> success,
      original_format |-> orig_format,
      output_format   |-> out_format,
      original_size   |-> original_size,
      output_path     |-> None,
      data            |-> None,
      output_size     |-> None,
      metadata        |-> None,
      errors          |-> <<>>,
      warnings        |-> <<>> ]

\* the result convert builds once the transform returned (lines 81-90)
SuccessResult(orig_format, out_format, buffer, out_data, meta) ==
    [ ConversionResult(TRUE, orig_format, out_format, Len(buffer))
        EXCEPT !.output_size = Some(Len(out_data)),
               !.data        = Some(out_data),
               !.metadata    = meta ]


\* variant of FailureResult: the error list is left at its default
FailureResultNoErrors(e, out_format) ==
    ConversionResult(FALSE, "unknown", out_format, 0)

\* the result convert returns from its except clause (lines 101-109)
FailureResult(e, out_format) ==
    [ ConversionResult(FALSE, "unknown", out_format, 0) EXCEPT !.errors = <<e>> ]

\* str.encode("utf-8") of one code point below U+0800
Utf8EncodeChar(c) ==
    IF c < 128 THEN <<c>> ELSE <<192 + (c \div 64), 128 + (c % 64)>>

RECURSIVE Utf8Encode(_)
Utf8Encode(text) ==
    IF text = <<>> THEN <<>>
    ELSE Utf8EncodeChar(Head(text)) \o Utf8Encode(Tail(text))

\* `result if isinstance(result, bytes) else result.encode('utf-8')`
CoerceToBytes(value) ==
    IF value.type = "bytes" THEN value.val ELSE Utf8Encode(value.val)

\* what a plugin's convert may hand back: bytes or text
PluginValues ==
    {[type |-> "bytes", val |-> b] : b \in Buffers} \cup
    {[type |-> "str",   val |-> t] : t \in Texts}

\* a plugin's convert either returns a value or raises
PluginOutcomes ==
    {Ok(v) : v \in PluginValues} \cup
    {Raise([msg |-> "PluginConversionError", args |-> <<>>])}


---------------------------------------------------------------------------
(* The stages of convert, as operators *)

\* an exception, as str(e) shows it
Error(msg, args) == [msg |-> msg, args |-> args]

\* Python truthiness of an Optional[str] option
Truthy(opt) == opt # None /\ opt[1] # ""

\* variant of PrepareInput: the path of a file read is not kept as hint
PrepareInputNoHint(inp, file) ==
    CASE inp.kind = "bytes" -> Ok([buffer |-> inp.data, path |-> None])
      [] inp.kind = "path"  ->
            IF file.ok THEN Ok([buffer |-> file.val, path |-> None])
                       ELSE file
      [] OTHER -> Raise(Error("Tipo de entrada nao suportado", <<>>))

\* FileForge._prepare_input; `file` is what open(file_path, 'rb').read() does
PrepareInput(inp, file) ==
    CASE inp.kind = "bytes" -> Ok([buffer |-> inp.data, path |-> None])
      [] inp.kind = "path"  ->
            IF file.ok THEN Ok([buffer |-> file.val, path |-> Some(inp.path)])
                       ELSE file
      [] OTHER -> Raise(Error("Tipo de entrada nao suportado", <<>>))

\* what reading a file may do
FileOutcomes == {Ok(b) : b \in Buffers} \cup {Raise(Error("IOFailure: read", <<>>))}


\* variant of ValidateFormats: the output format is not checked
ValidateFormatsInputOnly(reg, orig_format, out_format) ==
    IF ~IsFormatSupported(reg, orig_format, "input")
    THEN Raise(Error("Formato de entrada nao suportado", <<orig_format>>))
    ELSE Ok(TRUE)

\* the two format checks of convert (lines 64-68)
ValidateFormats(reg, orig_format, out_format) ==
    IF ~IsFormatSupported(reg, orig_format, "input")
    THEN Raise(Error("Formato de entrada nao suportado", <<orig_format>>))
    ELSE IF ~IsFormatSupported(reg, out_format, "output")
    THEN Raise(Error("Formato de saida nao suportado", <<out_format>>))
    ELSE Ok(TRUE)

\* what MetadataExtractor.extract may do
ExtractorOutcomes(buffer, format_name) ==
    { Ok([format |-> format_name, file_size |-> Len(buffer)]),
      Raise(Error("MetadataError", <<>>)) }

\* FileForge.extract_metadata, called with bytes and a format hint
ExtractMetadata(buffer, format_hint, extractor) ==
    LET prepared == PrepareInput([kind |-> "bytes", data |-> buffer], Ok(buffer))
    IN  IF ~prepared.ok THEN prepared ELSE extractor


\* variant of OptimizeFile: the compression level is not looked at
OptimizeFileAlways(reg, data, format_name, opts, po) ==
    LET plugin == FindPlugin(reg, format_name, format_name)
    IN  IF plugin # None
        THEN [outcome |-> IF po.ok THEN Ok(CoerceToBytes(po.val)) ELSE po,
              calls   |-> <<[plugin |-> plugin[1].name, outcome |-> po]>>]
        ELSE [outcome |-> Ok(data), calls |-> <<>>]

\* variant of OptimizeFile: no plugin is looked up, the bytes are handed back
OptimizeFileNeverPlugin(reg, data, format_name, opts, po) ==
    [outcome |-> Ok(data), calls |-> <<>>]

\* FileForge._optimize_file; `po` is what plugin.convert does if it is called
OptimizeFile(reg, data, format_name, opts, po) ==
    IF opts.compression = "none"
    THEN [outcome |-> Ok(data), calls |-> <<>>]
    ELSE LET plugin == FindPlugin(reg, format_name, format_name)
         IN  IF plugin # None
             THEN [outcome |-> IF po.ok THEN Ok(CoerceToBytes(po.val)) ELSE po,
                   calls   |-> <<[plugin |-> plugin[1].name, outcome |-> po]>>]
             ELSE [outcome |-> Ok(data), calls |-> <<>>]


\* variant of ExecuteConversion: a text result is handed on without encoding it
ExecuteConversionNoEncode(reg, data, input_format, out_format, opts, po) ==
    IF input_format = out_format
    THEN OptimizeFile(reg, data, out_format, opts, po)
    ELSE LET plugin == FindPlugin(reg, input_format, out_format)
         IN  IF plugin = None
             THEN [outcome |-> Raise(Error("Conversao nao suportada",
                                           <<input_format, out_format>>)),
                   calls   |-> <<>>]
             ELSE [outcome |-> IF po.ok THEN Ok(po.val.val) ELSE po,
                   calls   |-> <<[plugin |-> plugin[1].name, outcome |-> po]>>]

\* variant of ExecuteConversion: with no plugin found the input is handed back,
\* as the same-format pass does
ExecuteConversionFallback(reg, data, input_format, out_format, opts, po) ==
    IF input_format = out_format
    THEN OptimizeFile(reg, data, out_format, opts, po)
    ELSE LET plugin == FindPlugin(reg, input_format, out_format)
         IN  IF plugin = None
             THEN [outcome |-> Ok(data), calls |-> <<>>]
             ELSE [outcome |-> IF po.ok THEN Ok(CoerceToBytes(po.val)) ELSE po,
                   calls   |-> <<[plugin |-> plugin[1].name, outcome |-> po]>>]

\* FileForge._execute_conversion; `po` is what plugin.convert does if it is called
ExecuteConversion(reg, data, input_format, out_format, opts, po) ==
    IF input_format = out_format
    THEN OptimizeFile(reg, data, out_format, opts, po)
    ELSE LET plugin == FindPlugin(reg, input_format, out_format)
         IN  IF plugin = None
             THEN [outcome |-> Raise(Error("Conversao nao suportada",
                                           <<input_format, out_format>>)),
                   calls   |-> <<>>]
             ELSE [outcome |-> IF po.ok THEN Ok(CoerceToBytes(po.val)) ELSE po,
                   calls   |-> <<[plugin |-> plugin[1].name, outcome |-> po]>>]

\* variant of WantsSave: the output is written whatever the options say
WantsSaveAlways(opts) == TRUE

\* the `if` guarding the persist step (line 93)
WantsSave(opts) == Truthy(opts.output_dir) \/ opts.output_name # None

\* FileForge._save_output: the path the output is written to
SaveOutputPath(format_name, opts, original_path) ==
    LET output_dir ==
            IF Truthy(opts.output_dir) THEN opts.output_dir[1]
            ELSE IF original_path # None THEN original_path[1].dir ELSE "./"
        output_name ==
            IF opts.output_name # None THEN opts.output_name[1]
            ELSE IF original_path # None
                 THEN [stem |-> original_path[1].stem, suffix |-> format_name]
                 ELSE [stem |-> "output", suffix |-> format_name]
    IN  [dir |-> output_dir, name |-> output_name]

\* what creating the directory and writing the file may do
WriteOutcomes == {Ok(TRUE), Raise(Error("IOFailure: write", <<>>))}

---------------------------------------------------------------------------
(* One call of convert *)

ConversionOptionsSet ==
    [ output_format : {None},
      output_dir    : {None, Some("out")},
      output_name   : {None, Some([stem |-> "res", suffix |-> "bin"])},
      compression   : {"none", "medium"},
      metadata      : BOOLEAN ]

Inputs ==
    {[kind |-> "bytes", data |-> b] : b \in Buffers} \cup
    {[kind |-> "path",  path |-> Path(s)] : s \in Suffixes} \cup
    {[kind |-> "other"]}

ConvIdle ==
    /\ pc = "idle"
    /\ input_data = None /\ output_format = None /\ options = None
    /\ input_buffer = None /\ input_path = None /\ original_format = None
    /\ metadata = None /\ output_data = None /\ result = None
    /\ exc = None /\ ret = None /\ raised = None
    /\ fsWrites = <<>> /\ pluginCalls = <<>>

BatchIdle ==
    /\ bpc = "idle"
    /\ boptions = None /\ bpatterns = <<>> /\ files = <<>> /\ total_files = 0
    /\ results = <<>> /\ errors = <<>> /\ semaphore = 0
    /\ task = <<>> /\ completed = <<>> /\ finishOrder = <<>>
    /\ progressLog = <<>> /\ errorLog = <<>>
    /\ bret = None /\ braised = None

\* FileForge.__init__: no plugin registered yet, no call made
Init == registry = <<>> /\ ConvIdle /\ BatchIdle

\* FileForge.add_plugin
AddPlugin(plugin) ==
    /\ pc = "idle" /\ bpc = "idle"
    /\ registry' = PluginManagerAdd(registry, plugin)
    /\ UNCHANGED <<convVars, batchVars>>

\* FileForge.remove_plugin
RemovePlugin(name) ==
    /\ pc = "idle" /\ bpc = "idle"
    /\ registry' = PluginManagerRemove(registry, name)
    /\ UNCHANGED <<convVars, batchVars>>

\* the exception e is raised inside the try block
RaiseInTry(e) == exc' = Some(e) /\ pc' = "except"

\* convert is called (lines 54-56)
ConvertCall(inp, fmt, opts) ==
    /\ pc = "idle"
    /\ input_data' = Some(inp)
    /\ output_format' = Some(fmt)
    /\ options' = Some([opts EXCEPT !.output_format = Some(fmt)])
    /\ pc' = "prepare"
    /\ UNCHANGED <<registry, input_buffer, input_path, original_format, metadata,
                   output_data, result, exc, ret, raised, fsWrites, pluginCalls,
                   batchVars>>

\* line 60
ConvertPrepare ==
    /\ pc = "prepare"
    /\ \E file \in FileOutcomes :
         LET r == PrepareInput(input_data[1], file)
         IN  IF r.ok
             THEN /\ input_buffer' = Some(r.val.buffer)
                  /\ input_path' = r.val.path
                  /\ pc' = "detect"
                  /\ exc' = exc
             ELSE /\ RaiseInTry(r.exc)
                  /\ UNCHANGED <<input_buffer, input_path>>
    /\ UNCHANGED <<registry, input_data, output_format, options, original_format,
                   metadata, output_data, result, ret, raised, fsWrites, pluginCalls,
                   batchVars>>

\* lines 61-68
ConvertDetect ==
    /\ pc = "detect"
    /\ LET d == DetectFormat(registry, input_buffer[1], input_path)
           v == ValidateFormats(registry, d.val, output_format[1])
       IN  IF ~d.ok
           THEN RaiseInTry(d.exc) /\ UNCHANGED original_format
           ELSE /\ original_format' = Some(d.val)
                /\ IF v.ok THEN pc' = "metadata" /\ exc' = exc
                           ELSE RaiseInTry(v.exc)
    /\ UNCHANGED <<registry, input_data, output_format, options, input_buffer,
                   input_path, metadata, output_data, result, ret, raised, fsWrites,
                   pluginCalls, batchVars>>

\* lines 71-73
ConvertMetadata ==
    /\ pc = "metadata"
    /\ IF options[1].metadata
       THEN \E extractor \in ExtractorOutcomes(input_buffer[1], original_format[1]) :
              LET m == ExtractMetadata(input_buffer[1], original_format[1], extractor)
              IN  IF m.ok
                  THEN metadata' = Some(m.val) /\ pc' = "execute" /\ exc' = exc
                  ELSE RaiseInTry(m.exc) /\ UNCHANGED metadata
       ELSE metadata' = None /\ pc' = "execute" /\ exc' = exc
    /\ UNCHANGED <<registry, input_data, output_format, options, input_buffer,
                   input_path, original_format, output_data, result, ret, raised,
                   fsWrites, pluginCalls, batchVars>>

\* lines 76-90
ConvertExecute ==
    /\ pc = "execute"
    /\ \E po \in PluginOutcomes :
         LET x == ExecuteConversion(registry, input_buffer[1], original_format[1],
                                    output_format[1], options[1], po)
         IN  /\ pluginCalls' = pluginCalls \o x.calls
             /\ IF x.outcome.ok
                THEN /\ output_data' = Some(x.outcome.val)
                     /\ result' = Some(SuccessResult(original_format[1], output_format[1],
                                                     input_buffer[1], x.outcome.val,
                                                     metadata))
                     /\ pc' = "save"
                     /\ exc' = exc
                ELSE /\ RaiseInTry(x.outcome.exc)
                     /\ UNCHANGED <<output_data, result>>
    /\ UNCHANGED <<registry, input_data, output_format, options, input_buffer,
                   input_path, original_format, metadata, ret, raised, fsWrites,
                   batchVars>>

\* lines 93-99
ConvertSave ==
    /\ pc = "save"
    /\ IF WantsSave(options[1])
       THEN \E w \in WriteOutcomes :
              LET output_path == SaveOutputPath(output_format[1], options[1], input_path)
              IN  IF w.ok
                  THEN /\ fsWrites' = Append(fsWrites,
                                             [path |-> output_path, data |-> output_data[1]])
                       /\ result' = Some([result[1] EXCEPT !.output_path = Some(output_path)])
                       /\ ret' = result'
                       /\ pc' = "returned"
                       /\ exc' = exc
                  ELSE /\ RaiseInTry(w.exc)
                       /\ UNCHANGED <<fsWrites, result, ret>>
       ELSE /\ ret' = result
            /\ pc' = "returned"
            /\ UNCHANGED <<fsWrites, result, exc>>
    /\ UNCHANGED <<registry, input_data, output_format, options, input_buffer,
                   input_path, original_format, metadata, output_data, raised,
                   pluginCalls, batchVars>>


\* variant of ConvertExcept: `except ValueError as e`, anything else propagates
ConvertExceptValueErrorOnly ==
    /\ pc = "except"
    /\ IF exc[1].msg \in {"Tipo de entrada nao suportado",
                          "Formato de entrada nao suportado",
                          "Formato de saida nao suportado",
                          "Conversao nao suportada"}
       THEN ret' = Some(FailureResult(exc[1], output_format[1])) /\ raised' = raised
       ELSE raised' = exc /\ ret' = ret
    /\ pc' = "returned"
    /\ UNCHANGED <<registry, input_data, output_format, options, input_buffer,
                   input_path, original_format, metadata, output_data, result, exc,
                   fsWrites, pluginCalls, batchVars>>

\* variant of ConvertExcept: the failure result reports what the call had already
\* found out (detected format, input size, metadata)
ConvertExceptKeepDetected ==
    /\ pc = "except"
    /\ ret' = Some([ FailureResult(exc[1], output_format[1])
                       EXCEPT !.original_format =
                                  IF original_format # None THEN original_format[1]
                                  ELSE "unknown",
                              !.original_size =
                                  IF input_buffer # None THEN Len(input_buffer[1])
                                  ELSE 0,
                              !.metadata = metadata ])
    /\ pc' = "returned"
    /\ UNCHANGED <<registry, input_data, output_format, options, input_buffer,
                   input_path, original_format, metadata, output_data, result, exc,
                   raised, fsWrites, pluginCalls, batchVars>>

\* lines 101-109: `except Exception as e`
ConvertExcept ==
    /\ pc = "except"
    /\ ret' = Some(FailureResult(exc[1], output_format[1]))
    /\ pc' = "returned"
    /\ UNCHANGED <<registry, input_data, output_format, options, input_buffer,
                   input_path, original_format, metadata, output_data, result, exc,
                   raised, fsWrites, pluginCalls, batchVars>>

Next ==
    \/ \E plugin \in CandidatePlugins : AddPlugin(plugin)
    \/ \E plugin \in CandidatePlugins : RemovePlugin(plugin.name)
    \/ \E inp \in Inputs, fmt \in OutputFormats, opts \in ConversionOptionsSet :
         ConvertCall(inp, fmt, opts)
    \/ ConvertPrepare
    \/ ConvertDetect
    \/ ConvertMetadata
    \/ ConvertExecute
    \/ ConvertSave
    \/ ConvertExcept

Spec == Init /\ [][Next]_vars


---------------------------------------------------------------------------
(* One call of convert_batch *)

\* the files on disk, in the order glob lists them
DiskFiles == <<"a.txt", "b.txt">>

\* the patterns tried
Patterns == {"*.txt", "a.*", "*.nomatch"}

\* glob.glob(pattern, recursive=True) on DiskFiles
Glob(pattern) ==
    CASE pattern = "*.txt" -> DiskFiles
      [] pattern = "a.*"   -> <<"a.txt">>
      [] OTHER             -> <<>>

\* the `patterns` argument: one pattern, or a list of patterns
PatternArgs ==
    {[kind |-> "str", pattern |-> p] : p \in Patterns} \cup
    {[kind |-> "list", list |-> l] : l \in SeqsUpTo(Patterns, 2)}

\* line 130
PatternsList(patterns) ==
    IF patterns.kind = "str" THEN <<patterns.pattern>> ELSE patterns.list

RECURSIVE ExpandPatternsDedup(_)
\* variant of ExpandPatterns: a file already matched is not listed again
ExpandPatternsDedup(patterns_list) ==
    IF patterns_list = <<>> THEN <<>>
    ELSE LET rest == ExpandPatternsDedup(Tail(patterns_list))
         IN  SelectSeq(Glob(Head(patterns_list)),
                       LAMBDA f : \A k \in 1..Len(rest) : rest[k] # f) \o rest

RECURSIVE ExpandPatterns(_)
\* lines 133-136: the matches of each pattern, concatenated in pattern order
ExpandPatterns(patterns_list) ==
    IF patterns_list = <<>> THEN <<>>
    ELSE Glob(Head(patterns_list)) \o ExpandPatterns(Tail(patterns_list))

\* the batch fields of BatchConversionOptions; a callback is present or None
BatchOptionsSet ==
    [ max_concurrency   : (-1)..MaxConc,
      continue_on_error : BOOLEAN,
      on_progress       : BOOLEAN,
      on_error          : BOOLEAN ]

\* what convert hands back to convert_file for a path: always a ConversionResult
ConvertOutcomes(out_format) ==
    { SuccessResult("txt", out_format, <<65>>, <<65>>, None),
      FailureResult(Error("Formato de saida nao suportado", <<out_format>>), out_format) }

\* what a callback of the caller may do
CallbackOutcomes == {Ok(TRUE), Raise(Error("CallbackError", <<>>))}

\* the first argument convert_file passes to on_progress (line 151)
ProgressCurrent(results_now) == Len(results_now) + 1

\* variant of ConvertFileBody: a result with success = false is recorded as a
\* {file, error} record too
ConvertFileBodySoftAsError(opts, results_now, total, file_path, r, progress, onerror) ==
    LET progress_calls ==
            IF opts.on_progress
            THEN <<[current |-> ProgressCurrent(results_now), total |-> total,
                    file |-> file_path, raised |-> ~progress.ok]>>
            ELSE <<>>
        e == progress.exc
    IN  IF ~opts.on_progress \/ progress.ok
        THEN [end |-> [kind |-> "result", val |-> r],
              progress |-> progress_calls,
              errors |-> IF r.success THEN <<>>
                         ELSE <<[file |-> file_path, error |-> r.errors[1]]>>,
              onerror |-> <<>>]
        ELSE LET record == [file |-> file_path, error |-> e]
                 error_calls == IF opts.on_error
                                THEN <<[error |-> e, file |-> file_path]>>
                                ELSE <<>>
             IN  [end |-> IF opts.on_error /\ ~onerror.ok
                          THEN [kind |-> "exception", val |-> onerror.exc]
                          ELSE IF ~opts.continue_on_error
                          THEN [kind |-> "exception", val |-> e]
                          ELSE [kind |-> "none", val |-> None],
                  progress |-> progress_calls,
                  errors   |-> <<record>>,
                  onerror  |-> error_calls]

\* the body of convert_file inside `async with semaphore` (lines 147-165), once
\* convert has handed back r: what the task ends with, and what it did on the way.
\* progress / onerror are what the callbacks do if they are called.
ConvertFileBody(opts, results_now, total, file_path, r, progress, onerror) ==
    LET progress_calls ==
            IF opts.on_progress
            THEN <<[current |-> ProgressCurrent(results_now), total |-> total,
                    file |-> file_path, raised |-> ~progress.ok]>>
            ELSE <<>>
        e == progress.exc
    IN  IF ~opts.on_progress \/ progress.ok
        THEN [end |-> [kind |-> "result", val |-> r],
              progress |-> progress_calls, errors |-> <<>>, onerror |-> <<>>]
        ELSE LET record == [file |-> file_path, error |-> e]
                 error_calls == IF opts.on_error
                                THEN <<[error |-> e, file |-> file_path]>>
                                ELSE <<>>
             IN  [end |-> IF opts.on_error /\ ~onerror.ok
                          THEN [kind |-> "exception", val |-> onerror.exc]
                          ELSE IF ~opts.continue_on_error
                          THEN [kind |-> "exception", val |-> e]
                          ELSE [kind |-> "none", val |-> None],
                  progress |-> progress_calls,
                  errors   |-> <<record>>,
                  onerror  |-> error_calls]

RECURSIVE FilterResultsSuccessOnly(_, _)
\* variant of FilterResults: only the successful results are kept
FilterResultsSuccessOnly(collected, i) ==
    IF i > Len(collected) THEN <<>>
    ELSE (IF collected[i].kind = "result" /\ collected[i].val.success
          THEN <<[task |-> i, val |-> collected[i].val]>> ELSE <<>>)
         \o FilterResultsSuccessOnly(collected, i + 1)

RECURSIVE FilterResultsByCompletion(_, _)
\* variant of FilterResults: the results are listed in the order the tasks ended
FilterResultsByCompletion(collected, i) ==
    IF i > Len(finishOrder) THEN <<>>
    ELSE (IF collected[finishOrder[i]].kind = "result"
          THEN <<[task |-> finishOrder[i], val |-> collected[finishOrder[i]].val]>>
          ELSE <<>>)
         \o FilterResultsByCompletion(collected, i + 1)

\* line 172: the ConversionResult objects among what gather collected, in gather's
\* order (the order of the tasks)
RECURSIVE FilterResults(_, _)
FilterResults(collected, i) ==
    IF i > Len(collected) THEN <<>>
    ELSE (IF collected[i].kind = "result"
          THEN <<[task |-> i, val |-> collected[i].val]>> ELSE <<>>)
         \o FilterResults(collected, i + 1)

\* lines 174-181
BatchConversionResult(total, results_final, errors_final) ==
    [ total_files   |-> total,
      success_count |-> Len(SelectSeq(results_final, LAMBDA x : x.val.success)),
      error_count   |-> Len(errors_final),
      results       |-> results_final,
      errors        |-> errors_final ]

Pending == [kind |-> "pending", val |-> None]

\* convert_batch is called: lines 128-143 and the creation of the tasks (168-169)
BatchCall(patterns, fmt, opts) ==
    LET matches == ExpandPatterns(PatternsList(patterns))
    IN  /\ bpc = "idle" /\ pc = "idle"
        /\ Len(matches) <= MaxFiles
        /\ boptions' = Some(opts)
        /\ bpatterns' = PatternsList(patterns)
        /\ output_format' = Some(fmt)
        /\ files' = matches
        /\ total_files' = Len(matches)
        /\ results' = <<>>
        /\ errors' = <<>>
        /\ IF opts.max_concurrency < 0
           THEN \* asyncio.Semaphore(value) raises ValueError for a negative value
                /\ braised' = Some(Error("Semaphore initial value must be >= 0", <<>>))
                /\ bpc' = "raised"
                /\ UNCHANGED <<semaphore, task, completed>>
           ELSE /\ semaphore' = opts.max_concurrency
                /\ task' = [i \in 1..Len(matches) |-> "waiting"]
                /\ completed' = [i \in 1..Len(matches) |-> Pending]
                /\ bpc' = "gather"
                /\ UNCHANGED braised
        /\ UNCHANGED <<registry, pc, input_data, options, input_buffer, input_path,
                       original_format, metadata, output_data, result, exc, ret,
                       raised, fsWrites, pluginCalls, finishOrder, progressLog,
                       errorLog, bret>>

\* variant of TaskAcquire: the task enters without waiting for a free slot
TaskAcquireNoGate(i) ==
    /\ bpc = "gather"
    /\ task[i] = "waiting"
    /\ \A j \in 1..(i - 1) : task[j] # "waiting"
    /\ semaphore' = semaphore - 1
    /\ task' = [task EXCEPT ![i] = "running"]
    /\ UNCHANGED <<registry, convVars, bpc, boptions, bpatterns, files, total_files, results,
                   errors, completed, finishOrder, progressLog, errorLog, bret, braised>>

\* `async with semaphore` is entered by task i (line 146); the tasks start in the
\* order gather created them and asyncio.Semaphore wakes its waiters first-in
\* first-out, so a task is admitted only after every task before it
TaskAcquire(i) ==
    /\ bpc = "gather"
    /\ task[i] = "waiting"
    /\ \A j \in 1..(i - 1) : task[j] # "waiting"
    /\ semaphore > 0
    /\ semaphore' = semaphore - 1
    /\ task' = [task EXCEPT ![i] = "running"]
    /\ UNCHANGED <<registry, convVars, bpc, boptions, bpatterns, files, total_files, results,
                   errors, completed, finishOrder, progressLog, errorLog, bret, braised>>

\* variant of TaskFinish: a task that ends by raising keeps its slot
TaskFinishLeakOnRaise(i) ==
    /\ bpc = "gather"
    /\ task[i] = "running"
    /\ \E r \in ConvertOutcomes(output_format[1]),
          progress \in CallbackOutcomes, onerror \in CallbackOutcomes :
         LET b == ConvertFileBody(boptions[1], results, total_files, files[i], r,
                                  progress, onerror)
         IN  /\ progressLog' = progressLog \o b.progress
             /\ errors' = errors \o b.errors
             /\ errorLog' = errorLog \o b.onerror
             /\ completed' = [completed EXCEPT ![i] = b.end]
             /\ task' = [task EXCEPT ![i] = IF b.end.kind = "exception"
                                            THEN "raised" ELSE "returned"]
             /\ semaphore' = IF b.end.kind = "exception" THEN semaphore
                                                         ELSE semaphore + 1
    /\ finishOrder' = Append(finishOrder, i)
    /\ UNCHANGED <<registry, convVars, bpc, boptions, bpatterns, files, total_files,
                   results, bret, braised>>

\* convert hands its result back to task i, which runs to the end of convert_file
\* and leaves `async with semaphore` (lines 148-165)
TaskFinish(i) ==
    /\ bpc = "gather"
    /\ task[i] = "running"
    /\ \E r \in ConvertOutcomes(output_format[1]),
          progress \in CallbackOutcomes, onerror \in CallbackOutcomes :
         LET b == ConvertFileBody(boptions[1], results, total_files, files[i], r,
                                  progress, onerror)
         IN  /\ progressLog' = progressLog \o b.progress
             /\ errors' = errors \o b.errors
             /\ errorLog' = errorLog \o b.onerror
             /\ completed' = [completed EXCEPT ![i] = b.end]
             /\ task' = [task EXCEPT ![i] = IF b.end.kind = "exception"
                                            THEN "raised" ELSE "returned"]
    /\ finishOrder' = Append(finishOrder, i)
    /\ semaphore' = semaphore + 1
    /\ UNCHANGED <<registry, convVars, bpc, boptions, bpatterns, files, total_files, results,
                   bret, braised>>

\* gather(*tasks, return_exceptions=True) is done: lines 169-181
BatchReturn ==
    /\ bpc = "gather"
    /\ \A i \in 1..Len(files) : task[i] \in {"returned", "raised"}
    /\ results' = FilterResults(completed, 1)
    /\ bret' = Some(BatchConversionResult(total_files, results', errors))
    /\ bpc' = "returned"
    /\ UNCHANGED <<registry, convVars, boptions, bpatterns, files, total_files, errors,
                   semaphore, task, completed, finishOrder, progressLog, errorLog,
                   braised>>



BatchFormats == {"md"}

NextBatch ==
    \/ \E patterns \in PatternArgs, fmt \in BatchFormats, opts \in BatchOptionsSet :
         BatchCall(patterns, fmt, opts)
    \/ \E i \in 1..Len(files) : TaskAcquire(i)
    \/ \E i \in 1..Len(files) : TaskFinish(i)
    \/ BatchReturn

SpecBatch == Init /\ [][NextBatch]_vars

\* convert_batch under the scheduling of the event loop: a task that can enter
\* the semaphore does, a conversion under way ends (every per-file conversion
\* returns), and gather resumes convert_batch once every task is done
SpecBatchFair ==
    /\ Init /\ [][NextBatch]_vars
    /\ WF_vars(\E i \in 1..Len(files) : TaskAcquire(i))
    /\ WF_vars(\E i \in 1..Len(files) : TaskFinish(i))
    /\ WF_vars(BatchReturn)


---------------------------------------------------------------------------
(* Properties of convert, checked under Spec *)

\* the error messages of the pipeline, as the claims name them
UnsupportedOutputFormat(g) == Error("Formato de saida nao suportado", <<g>>)
NoPluginFound(f, g)        == Error("Conversao nao suportada", <<f, g>>)

\* some registered plugin declares f as input and g as output
SomePluginConverts(f, g) ==
    \E i \in 1..Len(registry) :
        f \in registry[i].input_formats /\ g \in registry[i].output_formats

DeclaredInput(f)  == \E i \in 1..Len(registry) : f \in registry[i].input_formats
DeclaredOutput(g) == \E i \in 1..Len(registry) : g \in registry[i].output_formats

\* bytes a plugin value stands for: text is encoded as UTF-8
AsBytes(value) == IF value.type = "bytes" THEN value.val ELSE Utf8Encode(value.val)

\* C1: convert never raises to its caller for an ordinary failure: whenever a
\* step inside the pipeline fails (read, detection, validation, plugin lookup,
\* plugin convert, output write), the call returns a ConversionResult with
\* success = false whose errors hold the message of that failure.
C1_NeverRaises ==
    pc = "returned" =>
        /\ raised = None
        /\ ret # None
        /\ exc # None => /\ ret[1].success = FALSE
                         /\ ret[1].errors = <<exc[1]>>

\* C1 witness: the output write failed after the transform, and the call returned
\* the failure as a result
C1_Witness ==
    /\ pc = "returned" /\ exc # None /\ ret # None /\ raised = None
    /\ exc[1].msg = "IOFailure: write"
    /\ output_data # None
    /\ ret[1].success = FALSE /\ ret[1].errors = <<exc[1]>>

\* C2: every result convert returns satisfies: success = false implies data is
\* absent and errors is non-empty; success = true implies data or output_path is
\* present; also when the persist step fails after the transform succeeded.
C2_ResultInvariant ==
    ret # None =>
        /\ ~ret[1].success => ret[1].data = None /\ ret[1].errors # <<>>
        /\ ret[1].success  => ret[1].data # None \/ ret[1].output_path # None

\* C2 witness: the transform produced output bytes, the write failed, and the
\* result carries no data and one error
C2_Witness ==
    /\ pc = "returned" /\ ret # None /\ exc # None
    /\ output_data # None /\ result # None /\ result[1].data # None
    /\ exc[1].msg = "IOFailure: write"
    /\ ~ret[1].success /\ ret[1].data = None /\ Len(ret[1].errors) = 1

\* C3 as stated: whenever the requested output format is declared by no
\* registered plugin, convert returns success = false with the "output format not
\* supported" error, whatever the state of the input.
C3_Original ==
    (pc = "returned" /\ ~DeclaredOutput(output_format[1])) =>
        /\ raised = None /\ ret # None
        /\ ~ret[1].success
        /\ ret[1].errors = <<UnsupportedOutputFormat(output_format[1])>>

\* C3 amended: whenever the requested output format is declared by no registered
\* plugin, convert does not throw and returns success = false; the error is the
\* "output format not supported" message when the input was read and its detected
\* format is a registered input format, and otherwise the error of the earlier
\* step that failed (input normalization, detection, or the input-format check).
C3_Amended ==
    (pc = "returned" /\ ~DeclaredOutput(output_format[1])) =>
        /\ raised = None /\ ret # None
        /\ ~ret[1].success
        /\ Len(ret[1].errors) = 1
        /\ IF original_format # None /\ DeclaredInput(original_format[1])
           THEN ret[1].errors = <<UnsupportedOutputFormat(output_format[1])>>
           ELSE ret[1].errors[1].msg \in {"Tipo de entrada nao suportado",
                                          "IOFailure: read", "UnknownFormat",
                                          "Formato de entrada nao suportado"}

\* C3 witness: a readable input of a registered input format, an undeclared
\* output format, and the "output format not supported" failure returned
C3_Witness ==
    /\ pc = "returned" /\ ret # None
    /\ original_format # None /\ DeclaredInput(original_format[1])
    /\ ~DeclaredOutput(output_format[1])
    /\ ~ret[1].success
    /\ ret[1].errors = <<UnsupportedOutputFormat(output_format[1])>>

\* the call asked for the detected format itself, with compression "none"
SameFormatNone ==
    /\ pc = "returned"
    /\ original_format # None
    /\ original_format[1] = output_format[1]
    /\ options[1].compression = "none"

\* C4 as stated: converting an input to its own detected format with compression
\* "none" returns success = true with output bytes identical to the input bytes,
\* and no plugin convert operation is invoked.
C4_Original ==
    SameFormatNone =>
        /\ ret # None /\ ret[1].success
        /\ ret[1].data = Some(input_buffer[1])
        /\ pluginCalls = <<>>

\* C4 amended: converting an input to its own detected format with compression
\* "none" invokes no plugin convert operation and does not throw; it returns
\* success = true with output bytes identical to the input bytes exactly when the
\* format is declared both as an input and as an output format and neither a
\* requested metadata extraction nor a requested output write raises; otherwise
\* it returns success = false.
C4_Amended ==
    SameFormatNone =>
        /\ pluginCalls = <<>>
        /\ raised = None /\ ret # None
        /\ ret[1].success <=>
              /\ DeclaredInput(original_format[1])
              /\ DeclaredOutput(output_format[1])
              /\ exc = None
        /\ ret[1].success => /\ ret[1].data = Some(input_buffer[1])
                             /\ ret[1].output_size = Some(Len(input_buffer[1]))

\* C4 witness: a non-empty input handed back unchanged by a same-format call
C4_Witness ==
    /\ SameFormatNone /\ ret # None /\ ret[1].success
    /\ input_buffer[1] # <<>>
    /\ ret[1].data = Some(input_buffer[1])
    /\ pluginCalls = <<>>

\* the call reached a result for a detected format f and a requested format g
\* that some registered plugin converts
PairWithPlugin ==
    /\ pc = "returned"
    /\ original_format # None
    /\ SomePluginConverts(original_format[1], output_format[1])

\* C5 as stated: for every pair (f, g) that some registered plugin declares,
\* convert on an input detected as f with requested format g returns
\* success = true, output_format = g, original_format = f and data equal to the
\* plugin's output (text encoded as UTF-8).  Stated on the calls that request no
\* metadata, which the claim covers.
C5_Original ==
    (PairWithPlugin /\ ~options[1].metadata) =>
        /\ ret # None /\ ret[1].success
        /\ ret[1].output_format = output_format[1]
        /\ ret[1].original_format = original_format[1]
        /\ Len(pluginCalls) = 1 /\ pluginCalls[1].outcome.ok
        /\ ret[1].data = Some(AsBytes(pluginCalls[1].outcome.val))

\* C5 amended: for every pair (f, g) that some registered plugin declares,
\* convert on an input detected as f with requested format g returns
\* success = true exactly when none of the requested metadata extraction, the
\* plugin's convert and the requested output write raises (otherwise
\* success = false); a successful result has output_format = g,
\* original_format = f and data equal to the output of the first capable plugin
\* (text encoded as UTF-8), except that for f = g with compression "none" no
\* plugin is invoked and data is the input bytes.
C5_Amended ==
    PairWithPlugin =>
        /\ raised = None /\ ret # None
        /\ ret[1].success <=> exc = None
        /\ ret[1].output_format = output_format[1]
        /\ ret[1].success =>
              /\ ret[1].original_format = original_format[1]
              /\ IF original_format[1] = output_format[1]
                    /\ options[1].compression = "none"
                 THEN pluginCalls = <<>> /\ ret[1].data = Some(input_buffer[1])
                 ELSE /\ Len(pluginCalls) = 1
                      /\ pluginCalls[1].outcome.ok
                      /\ \E i \in 1..Len(registry) :
                            /\ registry[i].name = pluginCalls[1].plugin
                            /\ original_format[1] \in registry[i].input_formats
                            /\ output_format[1] \in registry[i].output_formats
                            /\ \A j \in 1..(i - 1) :
                                  ~(/\ original_format[1] \in registry[j].input_formats
                                    /\ output_format[1] \in registry[j].output_formats)
                      /\ ret[1].data = Some(AsBytes(pluginCalls[1].outcome.val))

\* C5 witness: a txt input converted to md by a plugin that returned text with a
\* non-ASCII character, which reaches the result as its two UTF-8 bytes
C5_Witness ==
    /\ PairWithPlugin /\ ret # None /\ ret[1].success
    /\ original_format[1] = "txt" /\ output_format[1] = "md"
    /\ Len(pluginCalls) = 1 /\ pluginCalls[1].outcome.ok
    /\ pluginCalls[1].outcome.val = [type |-> "str", val |-> <<233>>]
    /\ ret[1].data = Some(<<195, 169>>)

\* the call reached a result for a detected format f and a requested format g
\* that no registered plugin converts
PairWithoutPlugin ==
    /\ pc = "returned"
    /\ original_format # None
    /\ ~SomePluginConverts(original_format[1], output_format[1])

\* C6 as stated: when no registered plugin converts (f, g), convert of an input
\* of format f to g returns success = false with the "conversion not supported
\* f -> g" error and raises no exception.
C6_Original ==
    PairWithoutPlugin =>
        /\ raised = None /\ ret # None
        /\ ~ret[1].success
        /\ ret[1].errors = <<NoPluginFound(original_format[1], output_format[1])>>

\* C6 amended: when no registered plugin converts (f, g) and f # g, convert of an
\* input of format f to g raises no exception and returns success = false; the
\* error is the "conversion not supported f -> g" message when f is a declared
\* input format, g is a declared output format and a requested metadata
\* extraction did not raise, and otherwise the error of that earlier step.  For
\* f = g no plugin is needed: the result is success = true with the input bytes
\* whenever f is declared as input and as output and no step raises.
C6_Amended ==
    PairWithoutPlugin =>
        /\ raised = None /\ ret # None
        /\ pluginCalls = <<>>
        /\ IF original_format[1] # output_format[1]
           THEN /\ ~ret[1].success
                /\ Len(ret[1].errors) = 1
                /\ IF /\ DeclaredInput(original_format[1])
                      /\ DeclaredOutput(output_format[1])
                      /\ metadata # None \/ ~options[1].metadata
                   THEN ret[1].errors =
                            <<NoPluginFound(original_format[1], output_format[1])>>
                   ELSE ret[1].errors[1].msg \in {"Formato de entrada nao suportado",
                                                  "Formato de saida nao suportado",
                                                  "MetadataError"}
           ELSE ret[1].success <=>
                    /\ DeclaredInput(original_format[1])
                    /\ DeclaredOutput(output_format[1])
                    /\ exc = None

\* C6 witness: both formats are declared, by different plugins, no plugin
\* converts the pair, and the "conversion not supported" failure is returned
C6_Witness ==
    /\ PairWithoutPlugin /\ ret # None
    /\ original_format[1] # output_format[1]
    /\ DeclaredInput(original_format[1]) /\ DeclaredOutput(output_format[1])
    /\ ~ret[1].success
    /\ ret[1].errors = <<NoPluginFound(original_format[1], output_format[1])>>


---------------------------------------------------------------------------
(* Properties of convert_batch, checked under SpecBatch *)

\* the per-file conversions inside `async with semaphore`
InFlight == {i \in 1..Len(task) : task[i] = "running"}

\* the tasks that ended by raising
Thrown == {i \in 1..Len(task) : task[i] = "raised"}

\* C7: during convert_batch the number of per-file conversions that entered the
\* pipeline and have not left it never exceeds max_concurrency; a task beyond the
\* cap stays waiting until a slot is released.
C7_ConcurrencyBound ==
    bpc \in {"gather", "returned"} =>
        /\ Cardinality(InFlight) <= boptions[1].max_concurrency
        /\ semaphore = boptions[1].max_concurrency - Cardinality(InFlight)
        /\ (\E i \in 1..Len(task) : task[i] = "waiting") /\ bpc = "gather"
              /\ Cardinality(InFlight) < boptions[1].max_concurrency
              => ENABLED (\E i \in 1..Len(files) : TaskAcquire(i))

\* C7 witness: the cap is reached (two conversions in flight with
\* max_concurrency = 2) while a third task waits
C7_Witness ==
    /\ bpc = "gather"
    /\ boptions[1].max_concurrency = 2
    /\ Cardinality(InFlight) = 2
    /\ \E i \in 1..Len(task) : task[i] = "waiting"

\* C8: with continue_on_error = true the returned BatchConversionResult satisfies
\* success_count + (number of results with success = false) + error_count
\* = total_files, where success_count counts the results with success = true and
\* error_count the {file, error} records.
C8_Accounting ==
    (bpc = "returned" /\ boptions[1].continue_on_error) =>
        LET b    == bret[1]
            good == {k \in 1..Len(b.results) : b.results[k].val.success}
            soft == {k \in 1..Len(b.results) : ~b.results[k].val.success}
        IN  /\ b.total_files = Len(files)
            /\ b.success_count = Cardinality(good)
            /\ b.error_count = Len(b.errors)
            /\ b.success_count + Cardinality(soft) + b.error_count = b.total_files

\* C8 witness: a batch of three files returned with one success, one soft
\* failure and one {file, error} record
C8_Witness ==
    /\ bpc = "returned" /\ boptions[1].continue_on_error
    /\ bret[1].total_files = 3
    /\ bret[1].success_count = 1
    /\ bret[1].error_count = 1
    /\ Len(bret[1].results) = 2

\* C9: with continue_on_error = false, when a per-file task throws, convert_batch
\* ends by raising that exception to its caller and returns no
\* BatchConversionResult; with continue_on_error = true the exception becomes a
\* {file, error} record and the batch returns normally.
C9_Original ==
    bpc = "returned" =>
        IF boptions[1].continue_on_error
        THEN bret # None /\ braised = None
        ELSE Thrown = {}

\* C10: the k-th invocation of the progress callback carries current = k, total
\* = total_files and the path of the file whose attempt just completed.  Stated
\* on the runs in which no callback raises, which the claim covers.
C10_Original ==
    errors = <<>> =>
    \A k \in 1..Len(progressLog) :
        /\ progressLog[k].current = k
        /\ progressLog[k].total = total_files
        /\ progressLog[k].file = files[finishOrder[k]]

\* the tasks whose attempt returned a ConversionResult
Returned == {i \in 1..Len(completed) : completed[i].kind = "result"}

\* the position at which task i left the pipeline
FinishPos(i) == CHOOSE k \in 1..Len(finishOrder) : finishOrder[k] = i

\* C11 as stated: the results list holds exactly the ConversionResult objects of
\* the attempts that returned one, ordered by the order in which the conversions
\* completed, not by the order in which the files were submitted.
C11_Original ==
    bpc = "returned" =>
        LET rs == bret[1].results
        IN  /\ {rs[k].task : k \in 1..Len(rs)} = Returned
            /\ Len(rs) = Cardinality(Returned)
            /\ \A k \in 1..Len(rs) : rs[k].val = completed[rs[k].task].val
            /\ \A k, l \in 1..Len(rs) :
                  k < l => FinishPos(rs[k].task) < FinishPos(rs[l].task)

\* C11 amended: the results list holds exactly the ConversionResult objects of
\* the attempts that returned one (successes and soft failures), ordered by the
\* order in which the files were submitted (the order of the matched files),
\* whatever the order in which the conversions completed.
C11_Amended ==
    bpc = "returned" =>
        LET rs == bret[1].results
        IN  /\ {rs[k].task : k \in 1..Len(rs)} = Returned
            /\ Len(rs) = Cardinality(Returned)
            /\ \A k \in 1..Len(rs) : rs[k].val = completed[rs[k].task].val
            /\ \A k, l \in 1..Len(rs) : k < l => rs[k].task < rs[l].task

\* C11 witness: the second file completed before the first, both returned a
\* result (a success and a soft failure), and the list has the first file first
C11_Witness ==
    /\ bpc = "returned"
    /\ Len(finishOrder) >= 2 /\ finishOrder[1] = 2 /\ finishOrder[2] = 1
    /\ Len(bret[1].results) >= 2
    /\ bret[1].results[1].task = 1 /\ bret[1].results[2].task = 2
    /\ bret[1].results[1].val.success /\ ~bret[1].results[2].val.success

\* how many of the patterns passed match the disk file f
MatchCount(f) ==
    Cardinality({k \in 1..Len(bpatterns) :
                    \E j \in 1..Len(Glob(bpatterns[k])) : Glob(bpatterns[k])[j] = f})

\* the files on disk, as a set
OnDisk == {DiskFiles[k] : k \in 1..Len(DiskFiles)}

RECURSIVE TotalMatches(_)
\* the number of glob matches of the first k patterns passed, counted per pattern
TotalMatches(k) ==
    IF k = 0 THEN 0 ELSE Len(Glob(bpatterns[k])) + TotalMatches(k - 1)

\* C12: total_files is the length of the concatenation, in pattern order, of the
\* glob matches of each pattern, without deduplication: a file matched by two
\* patterns is counted, and converted, twice. When no pattern matches anything
\* convert_batch returns total_files = 0, success_count = 0, error_count = 0 and
\* invokes no conversion and no callback.
C12_TotalFiles ==
    bpc \in {"gather", "returned"} =>
        /\ total_files = TotalMatches(Len(bpatterns))
        /\ Len(files) = total_files
        /\ \A f \in OnDisk :
              Cardinality({i \in 1..Len(files) : files[i] = f}) = MatchCount(f)
        /\ \A i, j \in 1..Len(files) :
              i < j => \E k, l \in 1..Len(bpatterns) :
                          /\ k <= l
                          /\ \E m \in 1..Len(Glob(bpatterns[k])) : Glob(bpatterns[k])[m] = files[i]
                          /\ \E m \in 1..Len(Glob(bpatterns[l])) : Glob(bpatterns[l])[m] = files[j]
        /\ Len(task) = total_files
        /\ bpc = "returned" =>
              /\ bret[1].total_files = total_files
              /\ Len(finishOrder) = total_files
              /\ (\A k \in 1..Len(bpatterns) : Glob(bpatterns[k]) = <<>>) =>
                    /\ bret[1].total_files = 0
                    /\ bret[1].success_count = 0
                    /\ bret[1].error_count = 0
                    /\ finishOrder = <<>>
                    /\ progressLog = <<>> /\ errorLog = <<>>

\* C12 witness: two overlapping patterns, the file both match is counted twice
\* and both of its conversions were made
C12_Witness ==
    /\ bpc = "returned"
    /\ bpatterns = <<"*.txt", "a.*">>
    /\ total_files = 3
    /\ files = <<"a.txt", "b.txt", "a.txt">>
    /\ Len(bret[1].results) = 3

\* C12 witness for the empty case: a pattern that matches nothing, batch returned
C12_WitnessEmpty ==
    /\ bpc = "returned"
    /\ bpatterns = <<"*.nomatch">>
    /\ bret[1].total_files = 0

\* C13: with continue_on_error = false, once a per-file task has thrown, no
\* conversion that had not yet been admitted through the concurrency gate is
\* started any more (the conversions in flight run to completion).
C13_Original ==
    (bpc = "gather" /\ ~boptions[1].continue_on_error /\ Thrown # {}) =>
        ~ENABLED (\E i \in 1..Len(files) : TaskAcquire(i))

---------------------------------------------------------------------------
(* Properties of the stages of convert, checked under Spec *)

\* the exception that ended the try block came from the metadata extraction step
MetadataFailed ==
    options # None /\ options[1].metadata /\ exc # None /\ exc[1].msg = "MetadataError"

\* C14: when options.metadata is set and the metadata extraction step fails,
\* convert records the failure in the warnings list of the result and goes on to
\* the transform step; the metadata failure is not what makes a result
\* success = false.
C14_Original ==
    (pc = "returned" /\ raised = None /\ MetadataFailed) =>
        /\ ret[1].warnings # <<>>
        /\ \A k \in 1..Len(ret[1].errors) : ret[1].errors[k] # exc[1]

\* what input normalization leaves for bytes and for a path: the bytes themselves
\* with no path hint, or the content read with the path kept as hint
NormalizedBytesOrPath ==
    /\ input_data[1].kind = "bytes" =>
          input_buffer = Some(input_data[1].data) /\ input_path = None
    /\ input_data[1].kind = "path" =>
          IF input_buffer # None
          THEN input_buffer[1] \in Buffers /\ input_path = Some(input_data[1].path)
          ELSE /\ input_path = None
               /\ exc = Some(Error("IOFailure: read", <<>>))

\* C15 as stated: input normalization accepts raw bytes (no path hint) or a path
\* (read into memory, the path kept as hint); an input of any other type is a
\* fatal contract violation of convert: it is raised to the caller and is not
\* reported as a success = false result.
C15_Original ==
    pc = "returned" =>
        /\ NormalizedBytesOrPath
        /\ input_data[1].kind = "other" => (raised # None /\ ret = None)

\* C15 amended: input normalization accepts raw bytes (no path hint) or a path
\* (read into memory, the path kept as hint); for an input of any other type
\* the normalization step raises ValueError, which convert captures like every
\* other failure: it raises nothing and returns a success = false result whose
\* only error is the unsupported-input-type message.
C15_Amended ==
    pc \in {"detect", "metadata", "execute", "save", "except", "returned"} =>
        /\ NormalizedBytesOrPath
        /\ input_data[1].kind = "other" =>
              /\ input_buffer = None /\ input_path = None
              /\ pc \in {"except", "returned"}
              /\ exc = Some(Error("Tipo de entrada nao suportado", <<>>))
              /\ raised = None
              /\ pc = "returned" =>
                    /\ ret # None /\ ~ret[1].success
                    /\ ret[1].errors = <<Error("Tipo de entrada nao suportado", <<>>)>>

\* C15 witness: convert was given an input that is neither bytes nor a path and
\* returned a failure result
C15_Witness ==
    /\ pc = "returned"
    /\ input_data[1].kind = "other"
    /\ raised = None
    /\ ret # None /\ ~ret[1].success

\* the extension of the path hint, lower-cased ("" without hint or extension)
HintExt == IF input_path # None THEN Lower(input_path[1].suffix) ELSE ""

\* the extension mapped back from the MIME type guessed from the extension of
\* the path hint, when there is one
HintMimeExt ==
    IF input_path # None /\ GuessType(input_path[1].suffix) # None
    THEN GuessExtension(GuessType(input_path[1].suffix)[1])
    ELSE None

\* C16: format detection resolves in strict priority order, first match wins:
\* (1) the lower-cased extension of the path hint if it is a registered input
\* format, whatever the buffer holds; (2) else the extension mapped back from
\* the MIME type guessed from the extension, if registered; (3) else the
\* binary-signature match of the buffer.  Without a path hint only step 3
\* decides, and the format is a function of (buffer, path hint) for the
\* registry of the call.
C16_DetectionOrder ==
    (pc \in {"metadata", "execute", "save", "except", "returned"} /\ input_buffer # None) =>
        IF HintExt # "" /\ DeclaredInput(HintExt)
        THEN original_format = Some(HintExt)
        ELSE IF HintMimeExt # None /\ DeclaredInput(HintMimeExt[1])
        THEN original_format = Some(HintMimeExt[1])
        ELSE /\ input_path = None => HintExt = "" /\ HintMimeExt = None
             /\ IF Len(input_buffer[1]) >= 1 /\ input_buffer[1][1] = 37
                THEN original_format = Some("pdf")
                ELSE /\ original_format = None
                     /\ exc = Some(Error("UnknownFormat", <<>>))

\* C16 witness: a path with the registered extension txt whose content carries
\* the PDF signature, pdf being registered too: the extension decides
C16_Witness ==
    /\ pc = "returned"
    /\ input_path # None /\ input_path[1].suffix = "TXT"
    /\ input_buffer = Some(<<37>>)
    /\ DeclaredInput("txt") /\ DeclaredInput("pdf")
    /\ original_format = Some("txt")

\* the call asked for the detected format itself, with a compression level other
\* than "none"
SameFormatCompress ==
    /\ pc = "returned"
    /\ original_format # None
    /\ original_format[1] = output_format[1]
    /\ options[1].compression # "none"

\* the first registered plugin that declares the pair (f, g) is the one invoked
FirstCapableInvoked(f, g) ==
    /\ Len(pluginCalls) = 1
    /\ \E i \in 1..Len(registry) :
          /\ registry[i].name = pluginCalls[1].plugin
          /\ f \in registry[i].input_formats /\ g \in registry[i].output_formats
          /\ \A j \in 1..(i - 1) :
                ~(f \in registry[j].input_formats /\ g \in registry[j].output_formats)

\* C17 as stated: for a same-format conversion with a compression level other
\* than "none", if a plugin capable of (format -> format) is registered its
\* convert operation is applied and its output returned; if none is registered
\* the original bytes are returned unchanged and the result is still
\* success = true.  Stated on the calls that request neither metadata nor an
\* output file, which the claim covers.
C17_Original ==
    (SameFormatCompress /\ ~options[1].metadata /\ ~WantsSave(options[1])) =>
        /\ ret # None
        /\ IF SomePluginConverts(original_format[1], original_format[1])
           THEN /\ Len(pluginCalls) = 1
                /\ pluginCalls[1].outcome.ok =>
                      ret[1].data = Some(AsBytes(pluginCalls[1].outcome.val))
           ELSE /\ ret[1].success
                /\ ret[1].data = Some(input_buffer[1])

\* C17 amended: for a same-format conversion with a compression level other than
\* "none" convert does not throw.  If a plugin capable of (format -> format) is
\* registered, the first such plugin is invoked once, unless a requested metadata
\* extraction raised before, and the result is success = true with the plugin's
\* output (text encoded as UTF-8) exactly when the plugin returned and a
\* requested output write did not raise.  If none is registered no plugin is
\* invoked, and the original bytes are returned unchanged with success = true
\* exactly when the format is declared both as an input and as an output format
\* and neither a requested metadata extraction nor a requested output write
\* raises; otherwise the result is success = false.
C17_Amended ==
    SameFormatCompress =>
        /\ raised = None /\ ret # None
        /\ IF SomePluginConverts(original_format[1], original_format[1])
           THEN /\ pluginCalls = <<>> <=> MetadataFailed
                /\ pluginCalls # <<>> =>
                      FirstCapableInvoked(original_format[1], original_format[1])
                /\ ret[1].success <=>
                      (pluginCalls # <<>> /\ pluginCalls[1].outcome.ok /\ exc = None)
                /\ ret[1].success =>
                      ret[1].data = Some(AsBytes(pluginCalls[1].outcome.val))
           ELSE /\ pluginCalls = <<>>
                /\ ret[1].success <=>
                      /\ DeclaredInput(original_format[1])
                      /\ DeclaredOutput(original_format[1])
                      /\ exc = None
                /\ ret[1].success => ret[1].data = Some(input_buffer[1])

\* C17 witness: a same-format call with compression, a capable plugin applied
\* and its output, different from the input, returned
C17_Witness ==
    /\ SameFormatCompress /\ ret # None /\ ret[1].success
    /\ Len(pluginCalls) = 1 /\ pluginCalls[1].outcome.ok
    /\ ret[1].data = Some(AsBytes(pluginCalls[1].outcome.val))
    /\ ret[1].data # Some(input_buffer[1])

\* C17 witness of the other case: no capable plugin, the bytes handed back
C17_WitnessFallback ==
    /\ SameFormatCompress /\ ret # None /\ ret[1].success
    /\ ~SomePluginConverts(original_format[1], original_format[1])
    /\ input_buffer[1] # <<>>
    /\ ret[1].data = Some(input_buffer[1])

---------------------------------------------------------------------------
(* Further properties of convert_batch, checked under SpecBatch *)

\* the positions of progressLog at which the progress callback raised
ProgressRaised == {k \in 1..Len(progressLog) : progressLog[k].raised}

\* C18: within convert_batch a {file, error} record, and hence a non-zero
\* error_count and any call of the error callback, arises only when the progress
\* callback itself raises: with no progress callback, or one that never raises,
\* errors is empty, error_count is 0 and every matched file contributes exactly
\* one entry to results.  When the progress callback raises for a file, the
\* ConversionResult already computed for that file is dropped from results.
C18_ErrorsOnlyFromProgress ==
    bpc \in {"gather", "returned"} =>
        /\ Len(errors) = Cardinality(ProgressRaised)
        /\ Len(errorLog) <= Len(errors)
        /\ \A j \in 1..Len(errors) :
              \E k \in ProgressRaised :
                 /\ Cardinality({l \in ProgressRaised : l <= k}) = j
                 /\ errors[j].file = progressLog[k].file
        /\ ~boptions[1].on_progress => (progressLog = <<>> /\ errors = <<>>)
        /\ boptions[1].on_progress =>
              /\ Len(progressLog) = Len(finishOrder)
              /\ \A k \in 1..Len(progressLog) :
                    /\ progressLog[k].file = files[finishOrder[k]]
                    /\ progressLog[k].raised <=>
                          completed[finishOrder[k]].kind # "result"
        /\ bpc = "returned" =>
              /\ bret[1].error_count = Cardinality(ProgressRaised)
              /\ Len(bret[1].results) = total_files - Cardinality(ProgressRaised)
              /\ ProgressRaised = {} =>
                    /\ bret[1].errors = <<>> /\ bret[1].error_count = 0
                    /\ Len(bret[1].results) = total_files
                    /\ \A i \in 1..total_files : bret[1].results[i].task = i
              /\ \A k \in ProgressRaised :
                    \A l \in 1..Len(bret[1].results) :
                       bret[1].results[l].task # finishOrder[k]

\* C18 witness: the conversion of the first file succeeded, the progress callback
\* raised for it, and the batch returned without its result; the second file,
\* a soft failure, is in results and made no error record
C18_Witness ==
    /\ bpc = "returned"
    /\ total_files = 2
    /\ Len(progressLog) = 2
    /\ progressLog[1].raised /\ ~progressLog[2].raised
    /\ finishOrder = <<1, 2>>
    /\ bret[1].error_count = 1
    /\ Len(bret[1].results) = 1
    /\ bret[1].results[1].task = 2 /\ ~bret[1].results[1].val.success

\* the tasks still in front of the semaphore
Waiting == {i \in 1..Len(task) : task[i] = "waiting"}

\* C19: convert_batch eventually returns for every finite list of matched files
\* provided max_concurrency >= 1 and every per-file conversion returns; at
\* return no conversion is in flight or waiting and every admission slot has
\* been released, also when a task raised.  With max_concurrency = 0 and at
\* least one matched file no task is ever admitted and the batch never returns.
C19_Termination ==
    /\ (bpc = "gather" /\ boptions[1].max_concurrency >= 1) ~> (bpc = "returned")
    /\ [](bpc = "returned" =>
            /\ InFlight = {} /\ Waiting = {}
            /\ semaphore = boptions[1].max_concurrency)
    /\ []((bpc # "idle" /\ boptions[1].max_concurrency = 0 /\ Len(files) >= 1) =>
            /\ bpc = "gather"
            /\ Waiting = 1..Len(files)
            /\ finishOrder = <<>>
            /\ ~ENABLED NextBatch)

\* C19 witness: a batch of at least two files returned, one of its tasks raised,
\* and the semaphore is back at max_concurrency
C19_Witness ==
    /\ bpc = "returned"
    /\ Len(files) >= 2
    /\ Thrown # {}
    /\ boptions[1].max_concurrency >= 1
    /\ semaphore = boptions[1].max_concurrency

\* C19 witness of the stuck batch: max_concurrency = 0, a file matched
C19_WitnessStuck ==
    /\ bpc = "gather"
    /\ boptions[1].max_concurrency = 0
    /\ Len(files) >= 1

---------------------------------------------------------------------------
(* Properties of the persist step of convert, checked under Spec *)

\* output_dir or output_name is set in the options of the call
SaveRequested ==
    \/ options[1].output_dir \notin {None, Some("")}
    \/ options[1].output_name # None

\* C20: convert writes an output file only after the transform step has produced
\* output bytes, and only when output_dir or output_name is set; no file is
\* written by a conversion that fails at normalization, detection, validation,
\* metadata or transform, and with neither option set no file is written and
\* output_path stays absent even on success.
C20_WriteOnlyAfterTransform ==
    pc # "idle" =>
        /\ Len(fsWrites) <= 1
        /\ fsWrites # <<>> =>
              /\ SaveRequested
              /\ output_data # None /\ result # None
              /\ fsWrites[1].data = output_data[1]
              /\ pc = "returned" /\ exc = None
              /\ ret # None /\ ret[1].success
              /\ ret[1].output_path = Some(fsWrites[1].path)
        /\ (pc \in {"except", "returned"} /\ output_data = None) => fsWrites = <<>>
        /\ (pc = "returned" /\ ~ret[1].success) => fsWrites = <<>>
        /\ (pc = "returned" /\ ~SaveRequested) =>
              /\ fsWrites = <<>>
              /\ ret[1].output_path = None

\* C20 witness: a conversion with output_name set succeeded and the plugin's
\* output, not the input, is what was written
C20_Witness ==
    /\ pc = "returned" /\ ret # None /\ ret[1].success
    /\ options[1].output_dir = None /\ options[1].output_name # None
    /\ Len(fsWrites) = 1
    /\ Len(pluginCalls) = 1
    /\ fsWrites[1].data = output_data[1]
    /\ fsWrites[1].data # input_buffer[1]

\* C20 witness without the options: a success that wrote nothing
C20_WitnessNoSave ==
    /\ pc = "returned" /\ ret # None /\ ret[1].success
    /\ ~SaveRequested
    /\ fsWrites = <<>> /\ ret[1].output_path = None

---------------------------------------------------------------------------
(* Properties of the failure result of convert, checked under Spec *)

\* C21: every failure result of convert reports original_format = "unknown",
\* original_size = 0, no output_size, no metadata and exactly one error, also
\* when the failure happened after the input was read and its format detected
\* (unsupported output format, no plugin found, plugin error, write error);
\* output_format always echoes the requested format.
C21_FailureResultShape ==
    ret # None =>
        /\ ret[1].output_format = output_format[1]
        /\ ~ret[1].success =>
              /\ ret[1].original_format = "unknown"
              /\ ret[1].original_size = 0
              /\ ret[1].output_size = None
              /\ ret[1].metadata = None
              /\ Len(ret[1].errors) = 1
              /\ exc # None /\ ret[1].errors[1] = exc[1]

\* C21 witness: the input was read (one byte), its format detected, its metadata
\* extracted and the transform done; the write failed, and the result reports
\* none of it
C21_Witness ==
    /\ pc = "returned" /\ ret # None /\ ~ret[1].success
    /\ input_buffer # None /\ Len(input_buffer[1]) = 1
    /\ original_format = Some("txt")
    /\ metadata # None
    /\ output_data # None
    /\ exc # None /\ exc[1].msg = "IOFailure: write"
    /\ ret[1].original_format = "unknown" /\ ret[1].original_size = 0
    /\ ret[1].metadata = None /\ ret[1].output_size = None
    /\ ret[1].output_format = "md"

=============================================================================
